---- MODULE Spec2Model ----
(***************************************************************************)
(* Model of the two scripts of the housing-regression repository:          *)
(*   src/batch/run_monthly.py   run_monthly_predictions (monthly batches)  *)
(*   tests/data_quality.py      validate_data and its three-split driver   *)
(* The two programs share no state.  SpecBatch runs the batch runner,      *)
(* SpecValidator runs the validator driver; each leaves the other          *)
(* program's variables alone.                                              *)
(***************************************************************************)
EXTENDS Integers, Sequences, FiniteSets, TLC

VARIABLES
    \* ---- run_monthly.py ----
    b_pc,         \* position in run_monthly_predictions
    df,           \* the holdout frame: one parsed date per row (row = position)
    grouped,      \* the groupby object: sequence of [key, rows], in iteration order
    gi,           \* number of groups the for loop has taken so far
    preds_df,     \* the predictor's output for the current group
    files,        \* OUTPUT_DIR: file name -> content
    all_outputs,  \* list of the per-group outputs appended so far
    returned,     \* the value returned by run_monthly_predictions
    b_err,        \* which statement raised, "" when none
    trace,        \* the predictor calls and file writes, in the order they happened
    \* ---- data_quality.py ----
    v_pc,         \* position in the driver / validate_data
    split,        \* index of the split the driver's for loop is at
    data,         \* validate_data's frame: rows of [date, zipcode]
    zipcode_str,  \* the derived column ("" per row until derived)
    suite,        \* the expectations declared on the validator, in order
    results,      \* results["results"] of validator.validate()
    stdout,       \* the lines printed so far
    stderr,       \* the message of an uncaught exception
    status        \* the process exit status, -1 while running

bvars == <<b_pc, df, grouped, gi, preds_df, files, all_outputs, returned, b_err, trace>>
qvars == <<v_pc, split, data, zipcode_str, suite, results, stdout, stderr, status>>
vars == <<bvars, qvars>>

\* ------------------------------------------------------------------ bounds
\* Largest number of rows of the holdout frame.
MaxRows == 3
\* Largest number of rows of a validated split.
MaxSplitRows == 2
\* Largest number of rules on unmodelled columns that the engine reports failed.
MaxFailed == 1

\* ------------------------------------------------------------------ dates
\* A date cell of a CSV file is <<year, month, day>>, <<>> when the cell is
\* empty, or BadText when it holds text that is no date.  A parsed date is
\* <<year, month, day>> or NaT (pandas' missing timestamp).
BadText == <<0>>

NaT == <<>>

IsNaT(d) == d = NaT

year(d) == d[1]

month(d) == d[2]

\* Date cells the holdout file may hold: two rows of one month, the same month
\* of another year, a two-digit month of the earlier year, an empty cell and
\* text that is no date.
BatchDates ==
    { <<>>, BadText, <<2020, 3, 5>>, <<2020, 11, 30>>, <<2021, 3, 5>>, <<2021, 3, 20>>,
      <<2021, 4, 1>> }

\* ------------------------------------------------------------------ text
\* A string is a sequence of one-character strings.
DigitChars == <<"0", "1", "2", "3", "4", "5", "6", "7", "8", "9">>

RECURSIVE Digits(_)
\* str(n) / format "d" of a non-negative integer.
Digits(n) ==
    IF n < 10 THEN <<DigitChars[n + 1]>>
    ELSE Digits(n \div 10) \o <<DigitChars[(n % 10) + 1]>>

RECURSIVE ZeroPad(_, _)
\* Left-pad s with "0" up to width w; a longer s is left as it is.
ZeroPad(s, w) == IF Len(s) >= w THEN s ELSE ZeroPad(<<"0">> \o s, w)

\* ------------------------------------------------------------------ run_monthly.py
\* Mutant of Format02d: the month written without its width.
Format02dNoWidth(m) == Digits(m)

\* f"{month:02d}"
Format02d(m) == ZeroPad(Digits(m), 2)

\* f"preds_{year}_{month:02d}.csv"
FileName(key) ==
    <<"p", "r", "e", "d", "s", "_">> \o Digits(key[1]) \o <<"_">>
        \o Format02d(key[2]) \o <<".", "c", "s", "v">>

\* Mutant of GroupKey: grouping by the month alone, under the earliest year.
GroupKeyMonthOnly(d) == <<2020, month(d)>>

\* The key of a row: [df["date"].dt.year, df["date"].dt.month]
GroupKey(d) == <<year(d), month(d)>>

\* Lexicographic order of (year, month) keys.
KeyLess(a, b) == a[1] < b[1] \/ (a[1] = b[1] /\ a[2] < b[2])

\* The keys of a frame; groupby drops the rows whose key is missing (dropna).
KeysOf(frame) ==
    { GroupKey(frame[i]) : i \in { j \in DOMAIN frame : ~IsNaT(frame[j]) } }

RECURSIVE SortKeys(_)
\* The keys in ascending order (groupby sort=True).
SortKeys(S) ==
    IF S = {} THEN <<>>
    ELSE LET lo == CHOOSE k \in S : \A o \in S : o = k \/ KeyLess(k, o)
         IN  <<lo>> \o SortKeys(S \ {lo})

RECURSIVE AppearanceOrder(_, _)
\* Mutant of KeyOrder: the keys in order of first appearance (sort=False).
AppearanceOrder(frame, i) ==
    IF i > Len(frame) THEN <<>>
    ELSE LET rest == AppearanceOrder(frame, i + 1)
             k == GroupKey(frame[i])
         IN  IF IsNaT(frame[i]) THEN rest
             ELSE <<k>> \o SelectSeq(rest, LAMBDA o : o # k)

KeyOrderUnsorted(frame) == AppearanceOrder(frame, 1)

\* The order in which the groupby object yields its keys.
KeyOrder(frame) == SortKeys(KeysOf(frame))

RECURSIVE RowsFrom(_, _, _)
\* The rows (positions) of the frame with key k, in frame order, from row i on.
RowsFrom(frame, k, i) ==
    IF i > Len(frame) THEN <<>>
    ELSE IF ~IsNaT(frame[i]) /\ GroupKey(frame[i]) = k
         THEN <<i>> \o RowsFrom(frame, k, i + 1)
         ELSE RowsFrom(frame, k, i + 1)

\* df.groupby([year, month]): one [key, rows] per key, in key order.
GroupBy(frame) ==
    LET ks == KeyOrder(frame)
    IN  [n \in 1..Len(ks) |-> [key |-> ks[n], rows |-> RowsFrom(frame, ks[n], 1)]]

\* dt.year / dt.month of a column holding a NaT are float64, and so are the keys.
KeysAreFloat(frame) == \E i \in DOMAIN frame : IsNaT(frame[i])

\* The predictor's table for a group: one prediction per row it was given.
Predict(rows) == [n \in 1..Len(rows) |-> [row |-> rows[n]]]

RECURSIVE Concat(_)
\* pd.concat(outputs, ignore_index=True): the tables end to end, index 1..n.
Concat(outputs) ==
    IF outputs = <<>> THEN <<>> ELSE Head(outputs) \o Concat(Tail(outputs))

Frames == UNION { [1..n -> BatchDates] : n \in 0..MaxRows }

InitBatchVars ==
    /\ b_pc = "read_csv"
    /\ df \in Frames
    /\ grouped = <<>>
    /\ gi = 0
    /\ preds_df = <<>>
    /\ files = <<>>
    /\ all_outputs = <<>>
    /\ returned = <<>>
    /\ b_err = ""
    /\ trace = <<>>

IdleBatchVars ==
    /\ b_pc = "idle"
    /\ df = <<>>
    /\ grouped = <<>>
    /\ gi = 0
    /\ preds_df = <<>>
    /\ files = <<>>
    /\ all_outputs = <<>>
    /\ returned = <<>>
    /\ b_err = ""
    /\ trace = <<>>

\* pd.to_datetime(column) with the default errors="raise": an empty cell parses
\* to NaT, a date to itself; text that is no date makes the call raise.
ToDatetimeRaises(column) == \E i \in DOMAIN column : column[i] = BadText

\* Lines 25-29: read the holdout, parse the dates, build the groupby object.
LoadAndGroup ==
    /\ b_pc = "read_csv"
    /\ IF ToDatetimeRaises(df)
       THEN b_pc' = "raised" /\ b_err' = "to_datetime" /\ grouped' = grouped
       ELSE b_pc' = "for" /\ b_err' = b_err /\ grouped' = GroupBy(df)
    /\ UNCHANGED <<df, gi, preds_df, files, all_outputs, returned, trace>>
    /\ UNCHANGED qvars

\* Lines 32-33: the for statement takes the next group and prints the progress
\* line; formatting a float month with "02d" raises ValueError.
ForNext ==
    /\ b_pc = "for"
    /\ gi < Len(grouped)
    /\ gi' = gi + 1
    /\ IF KeysAreFloat(df)
       THEN b_pc' = "raised" /\ b_err' = "format"
       ELSE b_pc' = "predict" /\ b_err' = b_err
    /\ UNCHANGED <<df, grouped, preds_df, files, all_outputs, returned, trace>>
    /\ UNCHANGED qvars

\* Line 35: predict(group) returns.
PredictReturns ==
    /\ b_pc = "predict"
    /\ preds_df' = Predict(grouped[gi].rows)
    /\ trace' = Append(trace, [op |-> "predict", key |-> grouped[gi].key,
                               rows |-> grouped[gi].rows])
    /\ b_pc' = "to_csv"
    /\ UNCHANGED <<df, grouped, gi, files, all_outputs, returned, b_err>>
    /\ UNCHANGED qvars

\* Mutant of PredictRaises: the error is swallowed and the loop goes on.
PredictRaisesSwallowed ==
    /\ b_pc = "predict"
    /\ trace' = Append(trace, [op |-> "predict", key |-> grouped[gi].key,
                               rows |-> grouped[gi].rows])
    /\ b_pc' = "for"
    /\ b_err' = "predict"
    /\ UNCHANGED <<df, grouped, gi, preds_df, files, all_outputs, returned>>
    /\ UNCHANGED qvars

\* Line 35: predict(group) raises; nothing catches it.
PredictRaises ==
    /\ b_pc = "predict"
    /\ trace' = Append(trace, [op |-> "predict", key |-> grouped[gi].key,
                               rows |-> grouped[gi].rows])
    /\ b_pc' = "raised"
    /\ b_err' = "predict"
    /\ UNCHANGED <<df, grouped, gi, preds_df, files, all_outputs, returned>>
    /\ UNCHANGED qvars

\* Lines 37-41: write the group's file (overwriting), append to all_outputs.
SaveGroup ==
    /\ b_pc = "to_csv"
    /\ LET out_path == FileName(grouped[gi].key)
       IN  /\ files' = [n \in (DOMAIN files) \cup {out_path} |->
                            IF n = out_path THEN preds_df ELSE files[n]]
           /\ trace' = Append(trace, [op |-> "to_csv", key |-> grouped[gi].key,
                                      name |-> out_path])
    /\ all_outputs' = Append(all_outputs, preds_df)
    /\ b_pc' = "for"
    /\ UNCHANGED <<df, grouped, gi, preds_df, returned, b_err>>
    /\ UNCHANGED qvars

\* Mutant of ConcatAndReturn: an empty list of outputs gives an empty result.
ConcatAndReturnEmptyOk ==
    /\ b_pc = "for"
    /\ gi = Len(grouped)
    /\ b_pc' = "done"
    /\ returned' = Concat(all_outputs)
    /\ UNCHANGED <<df, grouped, gi, preds_df, files, all_outputs, b_err, trace>>
    /\ UNCHANGED qvars

\* Line 43: pd.concat(all_outputs, ignore_index=True); an empty list raises
\* ValueError ("No objects to concatenate").
ConcatAndReturn ==
    /\ b_pc = "for"
    /\ gi = Len(grouped)
    /\ IF all_outputs = <<>>
       THEN b_pc' = "raised" /\ b_err' = "concat" /\ returned' = returned
       ELSE b_pc' = "done" /\ b_err' = b_err /\ returned' = Concat(all_outputs)
    /\ UNCHANGED <<df, grouped, gi, preds_df, files, all_outputs, trace>>
    /\ UNCHANGED qvars

\* ------------------------------------------------------------------ data_quality.py
\* Line 84: the driver's three splits, in order.
Splits == <<"data/raw/train.csv", "data/raw/eval.csv", "data/raw/holdout.csv">>

\* Line 14: the bounds handed to between(), both inclusive.
DateLo == <<2010, 1, 1>>

DateHi == <<2025, 12, 31>>

\* a <= b on parsed dates.
DateLeq(a, b) ==
    \/ a[1] < b[1]
    \/ a[1] = b[1] /\ a[2] < b[2]
    \/ a[1] = b[1] /\ a[2] = b[2] /\ a[3] <= b[3]

\* Date cells a split may hold: an empty cell, text that is no date, the day
\* before the range, its first and last day, the day after it.
SplitDates ==
    { <<>>, BadText, <<2009, 12, 31>>, <<2010, 1, 1>>, <<2025, 12, 31>>,
      <<2026, 1, 1>> }

\* A zipcode cell is <<n>> for the integer n, <<>> when the cell is empty.
ZipCells == { <<>>, <<1234>>, <<98101>>, <<123456>> }

SplitRows == [date : SplitDates, zipcode : ZipCells]

Datasets == UNION { [1..n -> SplitRows] : n \in 0..MaxSplitRows }

\* Line 12: pd.to_datetime(cell, errors="coerce"): whatever is no date is NaT.
ToDatetimeCoerce(cell) == IF Len(cell) = 3 THEN cell ELSE NaT

\* Line 13: df["date"].notna().all()
AllNotNa(frame) == \A i \in DOMAIN frame : ~IsNaT(ToDatetimeCoerce(frame[i].date))

\* Mutant of AllBetween: .any() in place of .all().
AnyBetween(frame) ==
    \E i \in DOMAIN frame :
        /\ DateLeq(DateLo, ToDatetimeCoerce(frame[i].date))
        /\ DateLeq(ToDatetimeCoerce(frame[i].date), DateHi)

\* Line 14: df["date"].between("2010-01-01", "2025-12-31").all()
AllBetween(frame) ==
    \A i \in DOMAIN frame :
        /\ DateLeq(DateLo, ToDatetimeCoerce(frame[i].date))
        /\ DateLeq(ToDatetimeCoerce(frame[i].date), DateHi)

\* read_csv reads a column of integers with an empty cell as float64.
ZipIsFloat(frame) == \E i \in DOMAIN frame : frame[i].zipcode = <<>>

\* Line 16, astype(str): str of an int64 is its digits; str of a float64 is
\* its digits and ".0", and "nan" for the missing value.
AsTypeStr(cell, isFloat) ==
    IF ~isFloat THEN Digits(cell[1])
    ELSE IF cell = <<>> THEN <<"n", "a", "n">>
    ELSE Digits(cell[1]) \o <<".", "0">>

\* Mutant of StrZFill: the string is left unpadded.
StrNoFill(s, width) == s

\* Line 16, .str.zfill(5): pad on the left with "0" up to the width.
StrZFill(s, width) == ZeroPad(s, width)

\* Line 16: df["zipcode"].astype(str).str.zfill(5)
ZipcodeStrColumn(frame) ==
    [i \in DOMAIN frame |-> StrZFill(AsTypeStr(frame[i].zipcode, ZipIsFloat(frame)), 5)]

\* Lines 30-54: the expectations, in the order they are declared.
Expectations ==
    << [type |-> "expect_column_values_to_not_be_null", column |-> "price",
        kwargs |-> <<>>],
       [type |-> "expect_column_values_to_be_between", column |-> "price",
        kwargs |-> [min_value |-> 1000, max_value |-> 12000000]],
       [type |-> "expect_column_values_to_be_between", column |-> "median_sale_price",
        kwargs |-> [min_value |-> 0, max_value |-> 19000000]],
       [type |-> "expect_column_values_to_be_between", column |-> "median_list_price",
        kwargs |-> [min_value |-> 0, max_value |-> 19000000]],
       [type |-> "expect_column_values_to_be_between", column |-> "homes_sold",
        kwargs |-> [min_value |-> 0]],
       [type |-> "expect_column_values_to_be_between", column |-> "pending_sales",
        kwargs |-> [min_value |-> 0]],
       [type |-> "expect_column_values_to_be_between", column |-> "median_dom",
        kwargs |-> [min_value |-> 0, max_value |-> 10000]],
       [type |-> "expect_column_values_to_be_between", column |-> "avg_sale_to_list",
        kwargs |-> [min_value |-> 0, max_value |-> 2]],
       [type |-> "expect_column_values_to_not_be_null", column |-> "city_full",
        kwargs |-> <<>>],
       [type |-> "expect_column_value_lengths_to_equal", column |-> "zipcode_str",
        kwargs |-> [value |-> 5]],
       [type |-> "expect_column_values_to_be_between", column |-> "Total Population",
        kwargs |-> [min_value |-> 0]],
       [type |-> "expect_column_values_to_be_between", column |-> "Median Age",
        kwargs |-> [min_value |-> 0, max_value |-> 120]],
       [type |-> "expect_column_values_to_be_between", column |-> "Median Home Value",
        kwargs |-> [min_value |-> 0]] >>

\* The rules on columns whose cells are not modelled: the engine's verdict on
\* them is any verdict.
OpaqueRules == { n \in DOMAIN Expectations : Expectations[n].column # "zipcode_str" }

FailSets == { F \in SUBSET OpaqueRules : Cardinality(F) <= MaxFailed }

\* expect_column_value_lengths_to_equal(column, value): every value of the
\* column has that length.
LengthsEqual(column, value) == \A i \in DOMAIN column : Len(column[i]) = value

\* Mutant of EngineValidate: the engine stops at the first rule that fails.
EngineValidateStopAtFailure(rules, column, failing) ==
    LET ok(n) == IF rules[n].column = "zipcode_str"
                 THEN LengthsEqual(column, rules[n].kwargs.value)
                 ELSE n \notin failing
        bad == { n \in DOMAIN rules : ~ok(n) }
        last == IF bad = {} THEN Len(rules)
                ELSE CHOOSE n \in bad : \A o \in bad : n <= o
    IN  [n \in 1..last |-> [expectation_config |-> rules[n], success |-> ok(n)]]

\* Line 57, validator.validate(): one result per declared expectation, in
\* declaration order, each with its success flag.
EngineValidate(rules, column, failing) ==
    [n \in DOMAIN rules |->
        [expectation_config |-> rules[n],
         success |-> IF rules[n].column = "zipcode_str"
                     THEN LengthsEqual(column, rules[n].kwargs.value)
                     ELSE n \notin failing]]

\* Line 58
total == Len(results)

\* Line 59
passed == Cardinality({ n \in DOMAIN results : results[n].success })

\* Line 60
failed == total - passed

\* Line 62: the summary line.
SummaryLine(path, p, t) == [line |-> "summary", path |-> path, passed |-> p, total |-> t]

RECURSIVE FailureLinesFrom(_, _)
\* Lines 65-78: one entry per result that did not succeed, in result order.
FailureLinesFrom(res, n) ==
    IF n > Len(res) THEN <<>>
    ELSE IF res[n].success THEN FailureLinesFrom(res, n + 1)
    ELSE << [line |-> "failure", type |-> res[n].expectation_config.type,
             column |-> res[n].expectation_config.column,
             params |-> res[n].expectation_config.kwargs] >>
         \o FailureLinesFrom(res, n + 1)

FailureLines(res) == FailureLinesFrom(res, 1)

InitValidatorVars ==
    /\ v_pc = "main"
    /\ split = 0
    /\ data = <<>>
    /\ zipcode_str = <<>>
    /\ suite = <<>>
    /\ results = <<>>
    /\ stdout = <<>>
    /\ stderr = ""
    /\ status = -1

IdleValidatorVars ==
    /\ v_pc = "idle"
    /\ split = 0
    /\ data = <<>>
    /\ zipcode_str = <<>>
    /\ suite = <<>>
    /\ results = <<>>
    /\ stdout = <<>>
    /\ stderr = ""
    /\ status = -1

\* Lines 84-85 and 9: the for loop takes the next split and calls
\* validate_data, which reads the file.
CallValidateData ==
    /\ v_pc = "main"
    /\ split < Len(Splits)
    /\ split' = split + 1
    /\ data' \in Datasets
    /\ zipcode_str' = <<>>
    /\ suite' = <<>>
    /\ results' = <<>>
    /\ v_pc' = "to_datetime"
    /\ UNCHANGED <<stdout, stderr, status>>
    /\ UNCHANGED bvars

\* Lines 12-14: parse the dates, then the two asserts.  A failed assert is an
\* uncaught AssertionError: the traceback goes to stderr and the interpreter
\* exits with status 1.
AssertDates ==
    /\ v_pc = "to_datetime"
    /\ IF ~AllNotNa(data)
       THEN v_pc' = "exited" /\ status' = 1 /\ stderr' = "Invalid or missing dates"
       ELSE IF ~AllBetween(data)
       THEN v_pc' = "exited" /\ status' = 1 /\ stderr' = "Dates out of expected range"
       ELSE v_pc' = "zfill" /\ status' = status /\ stderr' = stderr
    /\ UNCHANGED <<split, data, zipcode_str, suite, results, stdout>>
    /\ UNCHANGED bvars

\* Line 16: derive zipcode_str.
DeriveZipcodeStr ==
    /\ v_pc = "zfill"
    /\ zipcode_str' = ZipcodeStrColumn(data)
    /\ v_pc' = "expect"
    /\ UNCHANGED <<split, data, suite, results, stdout, stderr, status>>
    /\ UNCHANGED bvars

\* Lines 19-54: build the validator and declare the 13 expectations.
DeclareExpectations ==
    /\ v_pc = "expect"
    /\ suite' = Expectations
    /\ v_pc' = "validate"
    /\ UNCHANGED <<split, data, zipcode_str, results, stdout, stderr, status>>
    /\ UNCHANGED bvars

\* Lines 57-60: run the suite.
Validate ==
    /\ v_pc = "validate"
    /\ \E failing \in FailSets : results' = EngineValidate(suite, zipcode_str, failing)
    /\ v_pc' = "summary"
    /\ UNCHANGED <<split, data, zipcode_str, suite, stdout, stderr, status>>
    /\ UNCHANGED bvars

\* Lines 62-63: print the summary line, then branch on failed.
PrintSummary ==
    /\ v_pc = "summary"
    /\ stdout' = Append(stdout, SummaryLine(Splits[split], passed, total))
    /\ v_pc' = IF failed # 0 THEN "report" ELSE "all_passed"
    /\ UNCHANGED <<split, data, zipcode_str, suite, results, stderr, status>>
    /\ UNCHANGED bvars

\* Lines 64-78: the header and one entry per failed expectation.
PrintFailures ==
    /\ v_pc = "report"
    /\ stdout' = Append(stdout, [line |-> "failed_header"]) \o FailureLines(results)
    /\ v_pc' = "sys_exit"
    /\ UNCHANGED <<split, data, zipcode_str, suite, results, stderr, status>>
    /\ UNCHANGED bvars

\* Mutant of SysExit: the process ends with status 0.
SysExitStatusZero ==
    /\ v_pc = "sys_exit"
    /\ status' = 0
    /\ v_pc' = "exited"
    /\ UNCHANGED <<split, data, zipcode_str, suite, results, stdout, stderr>>
    /\ UNCHANGED bvars

\* Mutant of SysExit: validate_data returns instead of ending the process.
SysExitReturns ==
    /\ v_pc = "sys_exit"
    /\ v_pc' = "main"
    /\ UNCHANGED <<split, data, zipcode_str, suite, results, stdout, stderr, status>>
    /\ UNCHANGED bvars

\* Line 79: sys.exit(1); nothing catches SystemExit, the process ends.
SysExit ==
    /\ v_pc = "sys_exit"
    /\ status' = 1
    /\ v_pc' = "exited"
    /\ UNCHANGED <<split, data, zipcode_str, suite, results, stdout, stderr>>
    /\ UNCHANGED bvars

\* Line 81: print the confirmation and return to the driver.
PrintAllPassed ==
    /\ v_pc = "all_passed"
    /\ stdout' = Append(stdout, [line |-> "all_passed"])
    /\ v_pc' = "main"
    /\ UNCHANGED <<split, data, zipcode_str, suite, results, stderr, status>>
    /\ UNCHANGED bvars

\* Line 84, loop exhausted: the script ends, exit status 0.
DriverEnd ==
    /\ v_pc = "main"
    /\ split = Len(Splits)
    /\ status' = 0
    /\ v_pc' = "exited"
    /\ UNCHANGED <<split, data, zipcode_str, suite, results, stdout, stderr>>
    /\ UNCHANGED bvars

\* ------------------------------------------------------------------ specifications
InitBatch == InitBatchVars /\ IdleValidatorVars

BatchNext ==
    \/ LoadAndGroup
    \/ ForNext
    \/ PredictReturns
    \/ PredictRaises
    \/ SaveGroup
    \/ ConcatAndReturn

SpecBatch == InitBatch /\ [][BatchNext]_vars

InitValidator == IdleBatchVars /\ InitValidatorVars

ValidatorNext ==
    \/ CallValidateData
    \/ AssertDates
    \/ DeriveZipcodeStr
    \/ DeclareExpectations
    \/ Validate
    \/ PrintSummary
    \/ PrintFailures
    \/ SysExit
    \/ PrintAllPassed
    \/ DriverEnd

SpecValidator == InitValidator /\ [][ValidatorNext]_vars

\* ------------------------------------------------------------------ claims: run_monthly.py
\* The predictor calls made so far, in order.
PredictCalls == SelectSeq(trace, LAMBDA e : e.op = "predict")

\* The file writes made so far, in order.
CsvWrites == SelectSeq(trace, LAMBDA e : e.op = "to_csv")

\* Every row of the holdout has a date.
AllDatesValid == \A i \in DOMAIN df : Len(df[i]) = 3

\* The rows whose date lies in year y, month m, read off the frame.
RowsOfMonth(y, m) == { i \in DOMAIN df : Len(df[i]) = 3 /\ df[i][1] = y /\ df[i][2] = m }

\* The (year, month) pairs that have a row, read off the frame.
MonthsPresent == { <<df[i][1], df[i][2]>> : i \in { j \in DOMAIN df : Len(df[j]) = 3 } }

\* How many times row i has been handed to the predictor.
TimesPredicted(i) ==
    Cardinality({ <<n, p>> \in (DOMAIN PredictCalls) \X (1..MaxRows + 1) :
                    p <= Len(PredictCalls[n].rows) /\ PredictCalls[n].rows[p] = i })

RECURSIVE SumOfGroupSizes(_)
SumOfGroupSizes(calls) ==
    IF calls = <<>> THEN 0 ELSE Len(Head(calls).rows) + SumOfGroupSizes(Tail(calls))

\* C1: when every row has a valid date, a row is handed to the predictor only
\* in the group of its own calendar year and month, together with every other
\* row of that month, never twice; a run that is not cut short by the predictor
\* ends having predicted every row exactly once, the group sizes summing to the
\* number of rows.
C1_PartitionTotalDisjoint ==
    AllDatesValid =>
        /\ \A n \in DOMAIN PredictCalls :
               LET e == PredictCalls[n]
               IN  { e.rows[p] : p \in DOMAIN e.rows } = RowsOfMonth(e.key[1], e.key[2])
        /\ \A i \in DOMAIN df : TimesPredicted(i) <= 1
        /\ b_pc \in {"done", "raised"} /\ b_err # "predict" =>
               /\ \A i \in DOMAIN df : TimesPredicted(i) = 1
               /\ SumOfGroupSizes(PredictCalls) = Len(df)
               /\ Len(df) > 0 => b_pc = "done"

C1_Witness ==
    /\ AllDatesValid
    /\ b_pc = "done"
    /\ Len(df) = 3
    /\ Len(PredictCalls) = 2
    /\ df[1][2] = df[3][2] /\ df[1][1] # df[3][1]

\* C7: the groups are taken in strictly ascending (year, month) order, each
\* group's file is written before the predictor is called for the next group,
\* and the returned table is the per-group outputs end to end in that order.
C7_AscendingOrder ==
    /\ \A a, b \in DOMAIN PredictCalls :
           a < b => KeyLess(PredictCalls[a].key, PredictCalls[b].key)
    /\ \A n \in DOMAIN trace :
           IF n % 2 = 1 THEN trace[n].op = "predict"
           ELSE trace[n].op = "to_csv" /\ trace[n].key = trace[n - 1].key
    /\ b_pc = "done" =>
           /\ Len(returned) = SumOfGroupSizes(PredictCalls)
           /\ \A a, b \in DOMAIN returned :
                  a < b =>
                      LET ka == <<df[returned[a].row][1], df[returned[a].row][2]>>
                          kb == <<df[returned[b].row][1], df[returned[b].row][2]>>
                      IN  ka = kb \/ KeyLess(ka, kb)
           /\ \A a, b \in DOMAIN returned :
                  a < b /\ df[returned[a].row][1] = df[returned[b].row][1]
                        /\ df[returned[a].row][2] = df[returned[b].row][2]
                      => returned[a].row < returned[b].row
           /\ { returned[a].row : a \in DOMAIN returned } = DOMAIN df

C7_Witness ==
    /\ b_pc = "done"
    /\ Len(PredictCalls) = 3
    /\ KeyLess(<<df[3][1], df[3][2]>>, <<df[2][1], df[2][2]>>)
    /\ KeyLess(<<df[2][1], df[2][2]>>, <<df[1][1], df[1][2]>>)

\* The digit a character stands for, -1 for any other character.
DigitOf(c) ==
    IF \E d \in 0..9 : DigitChars[d + 1] = c
    THEN CHOOSE d \in 0..9 : DigitChars[d + 1] = c
    ELSE -1

\* name reads preds_<four-digit year>_<two-digit month>.csv for year y, month m.
NameReads(name, y, m) ==
    /\ Len(name) = 17
    /\ SubSeq(name, 1, 6) = <<"p", "r", "e", "d", "s", "_">>
    /\ \A p \in {7, 8, 9, 10, 12, 13} : DigitOf(name[p]) >= 0
    /\ 1000 * DigitOf(name[7]) + 100 * DigitOf(name[8]) + 10 * DigitOf(name[9])
           + DigitOf(name[10]) = y
    /\ name[11] = "_"
    /\ 10 * DigitOf(name[12]) + DigitOf(name[13]) = m
    /\ SubSeq(name, 14, 17) = <<".", "c", "s", "v">>

\* C8: no file name is written twice in a run, and after a run that completes
\* the files are exactly one per (year, month) that has a row, each named
\* preds_<year>_<two-digit month>.csv and holding the predictions of that
\* month's rows.
C8_OneFilePerGroup ==
    /\ \A a, b \in DOMAIN CsvWrites : a # b => CsvWrites[a].name # CsvWrites[b].name
    /\ b_pc = "done" =>
           /\ \A k \in MonthsPresent :
                  \E name \in DOMAIN files :
                      /\ NameReads(name, k[1], k[2])
                      /\ { files[name][p].row : p \in DOMAIN files[name] }
                             = RowsOfMonth(k[1], k[2])
                      /\ Len(files[name]) = Cardinality(RowsOfMonth(k[1], k[2]))
           /\ \A name \in DOMAIN files :
                  \E k \in MonthsPresent : NameReads(name, k[1], k[2])
           /\ Cardinality(DOMAIN files) = Cardinality(MonthsPresent)
           /\ Len(CsvWrites) = Cardinality(MonthsPresent)

C8_Witness ==
    /\ b_pc = "done"
    /\ Cardinality(DOMAIN files) = 3
    /\ \E name \in DOMAIN files : NameReads(name, 2020, 11)
    /\ \E name \in DOMAIN files : NameReads(name, 2021, 3) /\ Len(files[name]) = 1

\* C9: the predictor is called at most once per group; once it has raised, the
\* run has stopped at that call: the raising call is the last thing that
\* happened, the files are those of the groups before it, no file exists for
\* the raising group or a later one, and nothing has been returned.
C9_PredictorErrorPropagates ==
    /\ \A a, b \in DOMAIN PredictCalls :
           a # b => PredictCalls[a].key # PredictCalls[b].key
    /\ b_err = "predict" =>
           /\ b_pc = "raised"
           /\ trace # <<>>
           /\ trace[Len(trace)].op = "predict"
           /\ trace[Len(trace)].key = grouped[gi].key
           /\ Len(PredictCalls) = gi
           /\ Len(CsvWrites) = gi - 1
           /\ \A n \in 1..(gi - 1) :
                  /\ CsvWrites[n].key = grouped[n].key
                  /\ CsvWrites[n].name \in DOMAIN files
                  /\ files[CsvWrites[n].name] = Predict(grouped[n].rows)
           /\ Cardinality(DOMAIN files) = gi - 1
           /\ returned = <<>>

C9_Witness ==
    /\ b_err = "predict"
    /\ b_pc = "raised"
    /\ gi = 2
    /\ Len(grouped) = 3
    /\ Cardinality(DOMAIN files) = 1

\* No row of the holdout has a date, and the dates parsed.
NoGroupAtAll == \A i \in DOMAIN df : df[i] = <<>>

\* C10: when the holdout yields no group (no rows, or only rows without a
\* date), the predictor is never called, no file is written, and the run ends
\* with the error of the final concatenation, never with a returned value.
C10_EmptyInputRaisesAtConcat ==
    NoGroupAtAll =>
        /\ trace = <<>>
        /\ DOMAIN files = {}
        /\ returned = <<>>
        /\ b_pc \in {"read_csv", "for", "raised"}
        /\ b_pc = "raised" => b_err = "concat"
        /\ b_pc = "for" => gi = 0 /\ grouped = <<>>

C10_Witness ==
    /\ NoGroupAtAll
    /\ Len(df) = 2
    /\ b_pc = "raised"
    /\ b_err = "concat"

\* ------------------------------------------------------------------ claims: data_quality.py
\* A date as one number, yyyymmdd.
DayNumber(d) == 10000 * d[1] + 100 * d[2] + d[3]

\* Some row of the frame has no date (empty or unparseable cell) or a date
\* outside 2010-01-01 .. 2025-12-31.
HasBadDate ==
    \E i \in DOMAIN data :
        \/ Len(data[i].date) # 3
        \/ DayNumber(data[i].date) < 20100101
        \/ DayNumber(data[i].date) > 20251231

\* The lines printed for a path.
SummariesOf(path) ==
    { n \in DOMAIN stdout : stdout[n].line = "summary" /\ stdout[n].path = path }

\* The lines of a failure report.
ReportLines == { n \in DOMAIN stdout : stdout[n].line \in {"failed_header", "failure"} }

\* C2: a frame with a missing or out-of-range date gets no further than the
\* asserts: the process ends with status 1 and a message, zipcode_str is never
\* derived, no expectation is declared or evaluated, and neither a summary line
\* for that path nor any failure report is printed.
C2_BadDatesAbortFirst ==
    HasBadDate =>
        /\ v_pc \in {"to_datetime", "exited"}
        /\ v_pc = "exited" => status = 1 /\ stderr # ""
        /\ zipcode_str = <<>>
        /\ suite = <<>>
        /\ results = <<>>
        /\ SummariesOf(Splits[split]) = {}
        /\ ReportLines = {}

C2_Witness ==
    /\ v_pc = "exited"
    /\ split = 2
    /\ Len(data) = 2
    /\ data[1].date = <<2025, 12, 31>>
    /\ data[2].date = <<2026, 1, 1>>

\* The rules that failed, read off the results.
FailedRules == { n \in DOMAIN results : ~results[n].success }

\* The j-th failed rule in declaration order.
NthFailed(j) ==
    CHOOSE n \in FailedRules : Cardinality({ o \in FailedRules : o < n }) = j - 1

\* C3: after preprocessing all 13 rules are evaluated, in declaration order,
\* whichever of them fail; and when the process has exited on failed rules,
\* the output ends with the summary line of the split, the header, and one entry
\* per failed rule and for no other rule, in declaration order.
C3_AllRulesThenFullReport ==
    /\ v_pc \in {"summary", "report", "all_passed", "sys_exit"} =>
           /\ Len(results) = 13
           /\ \A n \in DOMAIN results : results[n].expectation_config = Expectations[n]
    /\ status = 1 /\ stderr = "" =>
           LET k == Cardinality(FailedRules)
               L == Len(stdout)
           IN  /\ Len(results) = 13
               /\ k >= 1
               /\ L >= k + 2
               /\ stdout[L - k - 1] = [line |-> "summary", path |-> Splits[split],
                                       passed |-> 13 - k, total |-> 13]
               /\ stdout[L - k] = [line |-> "failed_header"]
               /\ \A j \in 1..k :
                      /\ stdout[L - k + j].line = "failure"
                      /\ stdout[L - k + j].type = Expectations[NthFailed(j)].type
                      /\ stdout[L - k + j].column = Expectations[NthFailed(j)].column
    /\ ReportLines # {} => v_pc \in {"sys_exit", "exited"}

C3_Witness ==
    /\ status = 1
    /\ stderr = ""
    /\ Cardinality(FailedRules) = 2
    /\ ~results[1].success
    /\ results[2].success

\* Every one of the three splits has a summary line reading 13/13.
AllSplitsPassed ==
    \A s \in DOMAIN Splits :
        \E n \in SummariesOf(Splits[s]) : stdout[n].passed = 13 /\ stdout[n].total = 13

\* The split being validated failed preprocessing or a rule.
CurrentSplitFailed == split >= 1 /\ (HasBadDate \/ FailedRules # {})

\* C4: the driver's exit status is 0 exactly when all three splits passed
\* preprocessing and all 13 rules, and 1 when a split failed.
C4_ExitStatus ==
    /\ v_pc # "exited" => status = -1
    /\ v_pc = "exited" =>
           /\ status \in {0, 1}
           /\ status = 0 <=> AllSplitsPassed /\ ~CurrentSplitFailed /\ split = 3
           /\ status = 1 <=> CurrentSplitFailed

C4_Witness ==
    /\ v_pc = "exited"
    /\ status = 1
    /\ split = 3
    /\ stderr = ""

\* C5 as written: whatever happened to the splits before it, every split is
\* evaluated and gets its own summary.
C5_EverySplitEvaluated ==
    v_pc = "exited" => \A s \in DOMAIN Splits : SummariesOf(Splits[s]) # {}

\* C5 amended: a split is evaluated only after every split before it passed
\* all 13 rules; the first split that fails ends the process, and the splits
\* after it are never read, evaluated or summarised.
C5_FirstFailureStopsDriver ==
    /\ \A s \in 1..(split - 1) :
           \E n \in SummariesOf(Splits[s]) :
               /\ stdout[n].passed = 13
               /\ stdout[n].total = 13
               /\ n < Len(stdout)
               /\ stdout[n + 1].line = "all_passed"
    /\ \A s \in DOMAIN Splits :
           /\ Cardinality(SummariesOf(Splits[s])) <= 1
           /\ s > split => SummariesOf(Splits[s]) = {}
    /\ CurrentSplitFailed /\ results # <<>> => v_pc \in {"summary", "report", "sys_exit", "exited"}
    /\ v_pc = "exited" /\ split < 3 => status = 1

C5_Witness ==
    /\ v_pc = "exited"
    /\ status = 1
    /\ stderr = ""
    /\ split = 1
    /\ SummariesOf(Splits[1]) # {}

\* The rule on zipcode_str.
ZipRule == CHOOSE n \in DOMAIN Expectations : Expectations[n].column = "zipcode_str"

\* zipcode_str has been derived for the current frame.
ZipDerived ==
    \/ v_pc \in {"expect", "validate", "summary", "report", "all_passed", "sys_exit"}
    \/ v_pc \in {"main", "exited"} /\ results # <<>>

\* Every zipcode cell holds an integer.
NoZipMissing == \A i \in DOMAIN data : data[i].zipcode # <<>>

\* An entry of the failure report names column zipcode_str.
ZipReported ==
    \E n \in DOMAIN stdout :
        /\ stdout[n].line = "failure"
        /\ stdout[n].column = "zipcode_str"
        /\ stdout[n].type = "expect_column_value_lengths_to_equal"

\* C6 as written: when some zipcode has fewer than 5 digits, the length rule
\* fails and, once the run has ended, has been reported with a non-zero exit.
C6_ShortZipFailsRule ==
    results # <<>> /\ (\E i \in DOMAIN data :
                           data[i].zipcode # <<>> /\ data[i].zipcode[1] < 10000) =>
        /\ ~results[ZipRule].success
        /\ v_pc = "exited" => status = 1 /\ ZipReported

RECURSIVE NumberRead(_)
\* The number a string of digits writes.
NumberRead(s) ==
    IF s = <<>> THEN 0 ELSE 10 * NumberRead(SubSeq(s, 1, Len(s) - 1)) + DigitOf(s[Len(s)])

\* C6 amended: when every zipcode is a non-negative integer, one with fewer
\* than 5 digits is zero-padded to exactly 5 characters writing the same number
\* and does not fail the rule; the rule fails exactly when some zipcode has
\* more than 5 digits, and is then reported on column zipcode_str with a
\* non-zero exit.
C6_ShortZipPaddedAndPasses ==
    NoZipMissing /\ ZipDerived =>
        /\ \A i \in DOMAIN data :
               /\ NumberRead(zipcode_str[i]) = data[i].zipcode[1]
               /\ data[i].zipcode[1] < 100000 => Len(zipcode_str[i]) = 5
        /\ results # <<>> =>
               /\ results[ZipRule].success
                      <=> \A i \in DOMAIN data : data[i].zipcode[1] < 100000
               /\ v_pc = "exited" /\ ~results[ZipRule].success =>
                      status = 1 /\ ZipReported

C6_Witness ==
    /\ results # <<>>
    /\ NoZipMissing
    /\ Len(data) = 2
    /\ data[1].zipcode = <<1234>>
    /\ data[2].zipcode = <<98101>>
    /\ zipcode_str[1] = <<"0", "1", "2", "3", "4">>
    /\ results[ZipRule].success
    /\ v_pc = "all_passed"

====
